---- MODULE Spec2Model ----
(***************************************************************************)
(* The todos REST service: the data access layer (src/todos.js), its       *)
(* routes (src/api.js) and the todos table (src/unnamed/part_000).         *)
(*                                                                         *)
(* JavaScript values are tagged records, strings are sequences of          *)
(* one-character strings.  The database is the table `table`, the serial   *)
(* `nextId` and the clock `now`; each SQL statement is one atomic step.    *)
(* A handler that issues one statement is one action; update issues two    *)
(* (lookup, then write) and is suspended in `upd` between them, so that    *)
(* any other request may run in between.  `out` is the response the route  *)
(* has just sent; ResponseSent forgets it.  `conns` counts the database    *)
(* connections that are open while no statement is running, `deleted` how  *)
(* many delete requests have returned true for each id.                    *)
(*                                                                         *)
(* Spec: the database answers every call and the clock stands still (the   *)
(* code never reads a timestamp).  SpecFault: connect() and any statement  *)
(* may fail.  SpecTime: the clock advances between statements.             *)
(***************************************************************************)
EXTENDS Integers, Sequences, FiniteSets, TLC

VARIABLES table, nextId, now, upd, out, conns, deleted

vars == <<table, nextId, now, upd, out, conns, deleted>>

\* ---- bounds ----
MaxId == 2
MaxTime == 1

\* ---- JavaScript values ----
Undef == [t |-> "undefined"]
Null == [t |-> "null"]
Str(s) == [t |-> "string", s |-> s]
Num(n) == [t |-> "number", n |-> n]
Bool(b) == [t |-> "boolean", b |-> b]

RECURSIVE Rep(_, _)
Rep(c, n) == IF n = 0 THEN <<>> ELSE <<c>> \o Rep(c, n - 1)

Digits == <<"0", "1", "2", "3", "4", "5", "6", "7", "8", "9">>
IsDigit(c) == \E i \in 1..10 : Digits[i] = c
DigitVal(c) == (CHOOSE i \in 1..10 : Digits[i] = c) - 1

RECURSIVE DecStr(_)
DecStr(n) == IF n < 10 THEN <<Digits[n + 1]>> ELSE DecStr(n \div 10) \o <<Digits[(n % 10) + 1]>>

\* value.toString() for the values that reach xss
toString(v) ==
  CASE v.t = "string" -> v.s
    [] v.t = "number" -> IF v.n < 0 THEN <<"-">> \o DecStr(0 - v.n) ELSE DecStr(v.n)
    [] v.t = "boolean" -> IF v.b THEN <<"t", "r", "u", "e">> ELSE <<"f", "a", "l", "s", "e">>
    [] OTHER -> <<>>

\* JavaScript truthiness
Truthy(v) ==
  CASE v.t = "string" -> v.s # <<>>
    [] v.t = "number" -> v.n # 0
    [] v.t = "boolean" -> v.b
    [] OTHER -> FALSE

\* ---- src/todos.js helpers ----
isEmpty(v) == v.t \in {"undefined", "null"}

MaxTitleLen == 128

RECURSIVE escapeHtml(_)
escapeHtml(s) ==
  IF s = <<>> THEN <<>>
  ELSE (CASE Head(s) = "<" -> <<"&", "l", "t", ";">>
          [] Head(s) = ">" -> <<"&", "g", "t", ";">>
          [] OTHER -> <<Head(s)>>) \o escapeHtml(Tail(s))

\* xss(value): `html = html || ""; html = html.toString()`, then the text is escaped
\* (a text that holds no whitelisted tag: every "<" and ">" of it is escaped)
xss(v) == IF Truthy(v) THEN escapeHtml(toString(v)) ELSE <<>>

isLength(s, min, max) == Len(s) >= min /\ Len(s) <= max

\* validator.isISO8601 on the calendar-date form YYYY-MM-DD
isISO8601(s) ==
  /\ Len(s) = 10
  /\ s[5] = "-" /\ s[8] = "-"
  /\ \A i \in {1, 2, 3, 4, 6, 7, 9, 10} : IsDigit(s[i])
  /\ 10 * DigitVal(s[6]) + DigitVal(s[7]) \in 1..12
  /\ 10 * DigitVal(s[9]) + DigitVal(s[10]) \in 1..31

\* titleError with a truthiness test in place of isEmpty
titleErrorTruthy(title) ==
  IF Truthy(title) /\ (title.t # "string" \/ ~isLength(title.s, 1, MaxTitleLen))
  THEN <<"title">> ELSE <<>>

titleError(title) ==
  IF ~isEmpty(title) /\ (title.t # "string" \/ ~isLength(title.s, 1, MaxTitleLen))
  THEN <<"title">> ELSE <<>>

positionError(position) ==
  IF ~isEmpty(position) /\ (position.t # "number" \/ position.n < 0)
  THEN <<"position">> ELSE <<>>

completedError(completed) ==
  IF ~isEmpty(completed) /\ completed.t # "boolean"
  THEN <<"completed">> ELSE <<>>

dueError(due) ==
  IF ~isEmpty(due) /\ (due.t # "string" \/ ~isISO8601(due.s))
  THEN <<"due">> ELSE <<>>

\* the fields of the errors pushed, in order
validateTodo(todo) ==
  titleError(todo.title) \o positionError(todo.position)
    \o completedError(todo.completed) \o dueError(todo.due)

\* ---- the database: table todos (PostgreSQL input conversion of text parameters) ----
Err == [ok |-> FALSE]
Ok(v) == [ok |-> TRUE, v |-> v]

RECURSIVE DecVal(_)
DecVal(s) == IF s = <<>> THEN 0 ELSE 10 * DecVal(SubSeq(s, 1, Len(s) - 1)) + DigitVal(s[Len(s)])

\* int: a non-empty digit string; the empty string is "invalid input syntax"
pgInt(s) == IF s # <<>> /\ (\A i \in 1..Len(s) : IsDigit(s[i])) THEN Ok(DecVal(s)) ELSE Err

\* boolean
pgBool(s) ==
  CASE s = <<"t", "r", "u", "e">> -> Ok(TRUE)
    [] s = <<"f", "a", "l", "s", "e">> -> Ok(FALSE)
    [] OTHER -> Err

\* timestamp with time zone, from a calendar date
pgTimestamptz(s) ==
  IF isISO8601(s)
  THEN Ok([y |-> DecVal(SubSeq(s, 1, 4)), m |-> DecVal(SubSeq(s, 6, 7)), d |-> DecVal(SubSeq(s, 9, 10))])
  ELSE Err

\* character varying(128)
pgVarchar(s) == IF Len(s) <= MaxTitleLen THEN Ok(s) ELSE Err

\* conversion of a text parameter to the type of its column
pgInput(column, s) ==
  CASE column = "title" -> pgVarchar(s)
    [] column = "position" -> pgInt(s)
    [] column = "completed" -> pgBool(s)
    [] column = "due" -> pgTimestamptz(s)

\* INSERT INTO todos(title, position, completed, due) VALUES($1, $2, $3, $4) RETURNING *
insertTodo(values, id, time) ==
  LET ti == pgInput("title", values[1])
      po == pgInput("position", values[2])
      co == pgInput("completed", values[3])
      du == pgInput("due", values[4])
  IN IF ti.ok /\ po.ok /\ co.ok /\ du.ok
     THEN [ok |-> TRUE,
           row |-> [id |-> id, title |-> ti.v, due |-> du.v, position |-> po.v,
                    completed |-> co.v, created |-> time, updated |-> time]]
     ELSE Err

\* SELECT ... FROM todos WHERE id = $1
selectById(rows, id) == {r \in rows : r.id = id}

\* the columns of RETURNING id, title, due, position, completed
returning(r) ==
  [id |-> r.id, title |-> r.title, due |-> r.due, position |-> r.position, completed |-> r.completed]

RECURSIVE setColumns(_, _, _)
setColumns(r, columns, vals) ==
  IF columns = <<>> THEN r
  ELSE setColumns([r EXCEPT ![Head(columns)] = Head(vals)], Tail(columns), Tail(vals))

\* UPDATE todos SET <column i> = $<i + 1>, ... WHERE id = $1 RETURNING id, title, due, position, completed
\* with the parameters `updates` = <<id, value, ...>>
updateTodo(rows, columns, updates) ==
  LET n == Len(columns)
      id == updates[1]
      conv == [i \in 1..n |-> IF columns[i] = "title" THEN Ok(updates[i + 1])
                              ELSE pgInput(columns[i], updates[i + 1])]
      hit == selectById(rows, id)
  IN IF n = 0 THEN Err                \* SET with no assignment: syntax error
     ELSE IF Len(updates) < n + 1 THEN Err   \* fewer parameters than placeholders
     ELSE IF \E i \in 1..n : ~conv[i].ok THEN Err
     ELSE IF hit = {} THEN [ok |-> TRUE, rows |-> <<>>, table |-> rows]
     ELSE LET old == CHOOSE r \in hit : TRUE
              new == setColumns(old, columns, [i \in 1..n |-> conv[i].v])
          IN IF ~pgVarchar(new.title).ok THEN Err
             ELSE [ok |-> TRUE, rows |-> <<returning(new)>>, table |-> (rows \ {old}) \cup {new}]

\* DELETE FROM todos WHERE id = $1
deleteTodo(rows, id) ==
  [ok |-> TRUE, rowCount |-> Cardinality(selectById(rows, id)), table |-> rows \ selectById(rows, id)]

\* query that ends the connection after a successful statement only
queryNoFinally(fault, res) ==
  IF fault = "connect"
  THEN [thrown |-> TRUE, open |-> 0]
  ELSE LET failed == fault = "statement" \/ ~res.ok
           connected == 1
           ended == IF failed THEN 0 ELSE 1
       IN [thrown |-> failed, open |-> connected - ended]

\* ---- query(sqlQuery, values): connect, run the statement, end the connection ----
\* `fault` is what the database does to this call: "none", "connect" (connect() rejects,
\* before the try block, no connection is established) or "statement" (the statement is
\* rejected by the server whatever its text).  `res` is the statement's own result.
\* open: the connections this call has opened and not ended when it returns or throws.
query(fault, res) ==
  IF fault = "connect"
  THEN [thrown |-> TRUE, open |-> 0]
  ELSE LET failed == fault = "statement" \/ ~res.ok
           connected == 1
           ended == 1          \* finally { await client.end() }
       IN [thrown |-> failed, open |-> connected - ended]

\* ---- requests ----
Faults == {"none", "connect", "statement"}

X == <<"x">>
TooLong == Rep("x", MaxTitleLen + 1)
Date1 == <<"2", "0", "1", "9", "-", "0", "2", "-", "0", "1">>
NoDate == <<"2", "0", "1", "9", "-", "1", "3", "-", "0", "1">>

Payload(title, position, completed, due) ==
  [title |-> title, position |-> position, completed |-> completed, due |-> due]

\* every title and position, the other fields good
TitlePayloads ==
  {Payload(ti, po, Bool(TRUE), Str(Date1)) :
     ti \in {Undef, Str(<<>>), Str(X), Str(TooLong)}, po \in {Num(-1), Num(0), Num(1), Num(2)}}
\* every completed and due, the other fields good
FlagPayloads ==
  {Payload(Str(X), Num(1), co, du) :
     co \in {Undef, Bool(FALSE), Bool(TRUE)}, du \in {Undef, Str(Date1), Str(NoDate)}}
\* at most one field present
PartialPayloads ==
  {Payload(ti, Undef, Undef, Undef) : ti \in {Undef, Str(X)}}
    \cup {Payload(Undef, po, Undef, Undef) : po \in {Num(0), Num(2)}}
    \cup {Payload(Undef, Undef, co, Undef) : co \in {Bool(FALSE), Bool(TRUE)}}
    \cup {Payload(Undef, Undef, Undef, Str(Date1))}
\* a title that xss rewrites
MarkupPayloads == {Payload(Str(<<"x", ">">>), Num(2), Bool(TRUE), Str(Date1))}
FewPayloads == FlagPayloads \cup PartialPayloads
Payloads == TitlePayloads \cup FlagPayloads \cup PartialPayloads
NoPayload == [title |-> Undef, position |-> Undef, completed |-> Undef, due |-> Undef]

Ids == 1..MaxId

Orders == {Undef, Str(<<"a", "s", "c">>), Str(<<"d", "e", "s", "c">>), Str(<<"D", "E", "S", "C">>),
           Str(<<"D", "e", "s", "c">>)}
CompletedArgs == {Undef, Str(<<"t", "r", "u", "e">>), Str(<<"f", "a", "l", "s", "e">>), Str(<<"1">>)}

\* ---- responses ----
None == [op |-> "none"]
NoUpd == [id |-> 0]
Item(r) == [t |-> "row", row |-> r]

\* the response a route sends: status and body (item, validation or rows), with the
\* request it answers and, as history, the last statement the request ran (last) and
\* the table before that statement (pre)
Resp(op, id, payload, last, pre) ==
  [op |-> op, id |-> id, payload |-> payload, last |-> last, pre |-> pre, thrown |-> FALSE,
   status |-> 200, success |-> FALSE, notFound |-> FALSE, validation |-> <<>>, item |-> Undef,
   rows |-> <<>>, order |-> Undef, completed |-> Undef]

\* catchErrors: a thrown error goes to the generic error handler
Thrown(op, id, payload, last, pre) ==
  [Resp(op, id, payload, last, pre) EXCEPT !.thrown = TRUE, !.status = 500]

\* createRoute
createStatus(success) == IF ~success THEN 400 ELSE 201

\* patchRoute
patchStatus(success, validation, notFound) ==
  IF ~success /\ Len(validation) > 0 THEN 400
  ELSE IF ~success /\ notFound THEN 404
  ELSE 201

\* deleteRoute
deleteStatus(result) == IF result THEN 204 ELSE 404

\* todoRoute
todoStatus(todo) == IF todo # Null THEN 200 ELSE 404

Init ==
  /\ table = {}
  /\ nextId = 1
  /\ now = 0
  /\ upd = NoUpd
  /\ out = None
  /\ conns = 0
  /\ deleted = [id \in 1..MaxId |-> 0]

\* create, behind createRoute (POST /todos)
Create(payload, fault) ==
  /\ out = None
  /\ LET validation == validateTodo(payload)
         values == <<xss(payload.title), xss(payload.position), xss(payload.completed), xss(payload.due)>>
         ins == insertTodo(values, nextId, now)
         q == query(fault, ins)
     IN IF Len(validation) > 0
        THEN /\ fault = "none"
             /\ out' = [Resp("create", 0, payload, "none", table) EXCEPT
                          !.validation = validation, !.item = Null, !.status = createStatus(FALSE)]
             /\ UNCHANGED <<table, nextId, conns>>
        ELSE /\ conns' = conns + q.open
             /\ IF q.thrown
                THEN /\ out' = Thrown("create", 0, payload, "insert", table)
                     /\ UNCHANGED <<table, nextId>>
                ELSE /\ nextId <= MaxId
                     /\ table' = table \cup {ins.row}
                     /\ nextId' = nextId + 1
                     /\ out' = [Resp("create", 0, payload, "insert", table) EXCEPT
                                  !.success = TRUE, !.item = Item(ins.row),
                                  !.status = createStatus(TRUE)]
  /\ UNCHANGED <<now, upd, deleted>>

\* changedColumns: the names of the fields that are not empty
changedColumns(payload) ==
  SelectSeq(<<"title", "due", "position", "completed">>, LAMBDA f : ~isEmpty(payload[f]))

\* changedValues: xss of each field that is not empty, else null; then .filter(Boolean)
changedValues(payload) ==
  LET clean(f) == IF ~isEmpty(payload[f]) THEN Str(xss(payload[f])) ELSE Null
      all == <<clean("title"), clean("due"), clean("position"), clean("completed")>>
      kept == SelectSeq(all, Truthy)
  IN [i \in 1..Len(kept) |-> kept[i].s]

\* updateOutcome validating before it looks at the lookup
updateOutcomeValidateFirst(found, validationResult) ==
  IF Len(validationResult) > 0 THEN "invalid"
  ELSE IF ~found THEN "notFound"
  ELSE "write"

\* what update does once the lookup has answered
updateOutcome(found, validationResult) ==
  IF ~found THEN "notFound"
  ELSE IF Len(validationResult) > 0 THEN "invalid"
  ELSE "write"

\* update up to its second await, behind patchRoute (PATCH /todos/:id):
\* the lookup, the validation and the statement built from the payload
UpdateLookup(id, payload, fault) ==
  /\ out = None
  /\ LET sel == [ok |-> TRUE, rows |-> selectById(table, id)]
         q == query(fault, sel)
         validationResult == validateTodo(payload)
         outcome == updateOutcome(sel.rows # {}, validationResult)
     IN /\ conns' = conns + q.open
        /\ IF q.thrown
           THEN out' = Thrown("update", id, payload, "select", table) /\ UNCHANGED upd
           ELSE IF outcome = "notFound"
           THEN /\ out' = [Resp("update", id, payload, "select", table) EXCEPT
                             !.notFound = TRUE, !.status = patchStatus(FALSE, <<>>, TRUE)]
                /\ UNCHANGED upd
           ELSE IF outcome = "invalid"
           THEN /\ out' = [Resp("update", id, payload, "select", table) EXCEPT
                             !.validation = validationResult,
                             !.status = patchStatus(FALSE, validationResult, FALSE)]
                /\ UNCHANGED upd
           ELSE /\ upd = NoUpd
                /\ upd' = [id |-> id, payload |-> payload, columns |-> changedColumns(payload),
                           updates |-> <<id>> \o changedValues(payload)]
                /\ UNCHANGED out
  /\ UNCHANGED <<table, nextId, now, deleted>>

\* updateResult that reports success only when a row came back
updateResultChecked(rows) ==
  [success |-> Len(rows) > 0, item |-> IF Len(rows) = 0 THEN Undef ELSE Item(rows[1])]

\* the result update returns after its UPDATE statement
updateResult(rows) ==
  [success |-> TRUE, item |-> IF Len(rows) = 0 THEN Undef ELSE Item(rows[1])]

\* update from its second query on: the UPDATE statement and the result returned
UpdateWrite(fault) ==
  /\ out = None
  /\ upd # NoUpd
  /\ LET stmt == updateTodo(table, upd.columns, upd.updates)
         q == query(fault, stmt)
         result == updateResult(stmt.rows)
     IN /\ conns' = conns + q.open
        /\ IF q.thrown
           THEN /\ out' = Thrown("update", upd.id, upd.payload, "update", table)
                /\ UNCHANGED table
           ELSE /\ table' = stmt.table
                /\ out' = [Resp("update", upd.id, upd.payload, "update", table) EXCEPT
                             !.success = result.success, !.item = result.item,
                             !.status = patchStatus(result.success, <<>>, FALSE)]
  /\ upd' = NoUpd
  /\ UNCHANGED <<nextId, now, deleted>>

\* delResult that takes any row count for a success
delResultAnyCount(rowCount) == rowCount >= 0

\* the value del returns
delResult(rowCount) == rowCount = 1

\* del, behind deleteRoute (DELETE /todos/:id)
Del(id, fault) ==
  /\ out = None
  /\ LET stmt == deleteTodo(table, id)
         q == query(fault, stmt)
         result == delResult(stmt.rowCount)
     IN /\ conns' = conns + q.open
        /\ IF q.thrown
           THEN /\ out' = Thrown("del", id, NoPayload, "delete", table)
                /\ UNCHANGED <<table, deleted>>
           ELSE /\ table' = stmt.table
                /\ deleted' = [deleted EXCEPT ![id] = IF result THEN @ + 1 ELSE @]
                /\ out' = [Resp("del", id, NoPayload, "delete", table) EXCEPT
                             !.success = result, !.status = deleteStatus(result)]
  /\ UNCHANGED <<nextId, now, upd>>

\* readOne, behind todoRoute (GET /todos/:id)
ReadOne(id, fault) ==
  /\ out = None
  /\ LET sel == [ok |-> TRUE, rows |-> selectById(table, id)]
         q == query(fault, sel)
         todo == IF sel.rows = {} THEN Null ELSE Item(CHOOSE r \in sel.rows : TRUE)
     IN /\ conns' = conns + q.open
        /\ IF q.thrown
           THEN out' = Thrown("readOne", id, NoPayload, "select", table)
           ELSE out' = [Resp("readOne", id, NoPayload, "select", table) EXCEPT
                          !.item = todo, !.status = todoStatus(todo)]
  /\ UNCHANGED <<table, nextId, now, upd, deleted>>

\* String.prototype.toLowerCase on the letters of the order parameter
LowerChar(c) ==
  CASE c = "A" -> "a" [] c = "C" -> "c" [] c = "D" -> "d" [] c = "E" -> "e" [] c = "S" -> "s"
    [] OTHER -> c
toLowerCase(s) == [i \in 1..Len(s) |-> LowerChar(s[i])]

\* orderString comparing the order parameter as it came
orderStringExact(order) ==
  LET o == IF order = Undef THEN <<"A", "S", "C">> ELSE order.s
  IN IF o = <<"d", "e", "s", "c">> THEN "DESC" ELSE "ASC"

orderString(order) ==
  LET o == IF order = Undef THEN <<"A", "S", "C">> ELSE order.s
  IN IF toLowerCase(o) = <<"d", "e", "s", "c">> THEN "DESC" ELSE "ASC"

\* the rows the SELECT of readAll scans: WHERE completed = $1, or all rows
selected(rows, completed) ==
  IF completed = Str(<<"f", "a", "l", "s", "e">>) \/ completed = Str(<<"t", "r", "u", "e">>)
  THEN {r \in rows : r.completed = pgBool(completed.s).v}
  ELSE rows

\* ORDER BY position <direction>: the sequences the database may return
\* (rows of equal position come in any order)
orderBy(rows, direction) ==
  LET n == Cardinality(rows)
  IN {s \in [1..n -> rows] :
        /\ \A i, j \in 1..n : i # j => s[i] # s[j]
        /\ \A i \in 1..n - 1 : IF direction = "DESC" THEN s[i].position >= s[i + 1].position
                                                      ELSE s[i].position <= s[i + 1].position}

\* readAll, behind todosRoute (GET /todos?order=&completed=)
ReadAll(order, completed, fault) ==
  /\ out = None
  /\ LET q == query(fault, [ok |-> TRUE])
     IN /\ conns' = conns + q.open
        /\ IF q.thrown
           THEN out' = [Thrown("readAll", 0, NoPayload, "select", table) EXCEPT
                          !.order = order, !.completed = completed]
           ELSE \E rows \in orderBy(selected(table, completed), orderString(order)) :
                  out' = [Resp("readAll", 0, NoPayload, "select", table) EXCEPT
                            !.rows = rows, !.order = order, !.completed = completed]
  /\ UNCHANGED <<table, nextId, now, upd, deleted>>

\* the clock of the database server
Tick ==
  /\ out = None
  /\ now < MaxTime
  /\ now' = now + 1
  /\ UNCHANGED <<table, nextId, upd, out, conns, deleted>>

\* res.json(...) has been sent
ResponseSent ==
  /\ out # None
  /\ out' = None
  /\ UNCHANGED <<table, nextId, now, upd, conns, deleted>>

\* ---- specifications ----
Requests(P, F) ==
  \/ \E payload \in P, fault \in F : Create(payload, fault)
  \/ \E id \in Ids, payload \in P, fault \in F : UpdateLookup(id, payload, fault)
  \/ \E fault \in F : UpdateWrite(fault)
  \/ \E id \in Ids, fault \in F : Del(id, fault)
  \/ \E id \in Ids, fault \in F : ReadOne(id, fault)
  \/ \E order \in Orders, completed \in CompletedArgs, fault \in F : ReadAll(order, completed, fault)

\* the database answers every call; the clock stands still
Next == Requests(Payloads, {"none"}) \/ ResponseSent

Spec == Init /\ [][Next]_vars

\* the database may refuse a connection or reject a statement
NextFault == Requests(FewPayloads, Faults) \/ ResponseSent

SpecFault == Init /\ [][NextFault]_vars

\* time passes between the requests
NextTime == Requests(FewPayloads \cup MarkupPayloads, {"none"}) \/ Tick \/ ResponseSent

SpecTime == Init /\ [][NextTime]_vars

\* ---- properties ----
IdsOf(rows) == {r.id : r \in rows}
RowOf(rows, id) == CHOOSE r \in rows : r.id = id
Has(errors, field) == \E i \in 1..Len(errors) : errors[i] = field
Present(v) == v.t \notin {"undefined", "null"}

\* C1: every create whose payload passes validation and has a title answers 201 with the
\* persisted row: a fresh id, every supplied field as supplied, every omitted optional
\* field at its default (position 0, completed false).
C1_CreateReturnsPersistedRow ==
  (out.op = "create" /\ Present(out.payload.title) /\ validateTodo(out.payload) = <<>>)
    => /\ out.success /\ out.status = 201 /\ ~out.thrown
       /\ out.item.t = "row"
       /\ out.item.row \in table
       /\ out.item.row.id \notin IdsOf(out.pre)
       /\ out.item.row.title = out.payload.title.s
       /\ out.item.row.position = (IF Present(out.payload.position) THEN out.payload.position.n ELSE 0)
       /\ out.item.row.completed = (IF Present(out.payload.completed) THEN out.payload.completed.b ELSE FALSE)
       /\ Present(out.payload.due) => out.item.row.due = pgTimestamptz(out.payload.due.s).v

\* C2: a create, or an update of an existing id, whose title is a string of length 0 or
\* of length above 128 returns success=false with a validation list holding a title
\* error and an error for every other present invalid field; the route answers 400 and
\* the table is as it was.
C2_BadTitleRejected ==
  (/\ out.op \in {"create", "update"}
   /\ out.payload.title.t = "string"
   /\ (Len(out.payload.title.s) = 0 \/ Len(out.payload.title.s) > 128)
   /\ (out.op = "update" => out.last = "select" /\ out.id \in IdsOf(out.pre)))
    => /\ ~out.success /\ ~out.notFound /\ ~out.thrown
       /\ out.status = 400
       /\ Has(out.validation, "title")
       /\ (out.payload.position.t = "number" /\ out.payload.position.n < 0)
            => Has(out.validation, "position")
       /\ (Present(out.payload.completed) /\ out.payload.completed.t # "boolean")
            => Has(out.validation, "completed")
       /\ (out.payload.due.t = "string" /\ out.payload.due.s = NoDate)
            => Has(out.validation, "due")
       /\ table = out.pre

C2_Witness ==
  /\ out.op = "update" /\ out.status = 400
  /\ out.id \in IdsOf(out.pre)
  /\ out.payload.title = Str(TooLong)
  /\ out.validation = <<"title", "position">>

\* C3: an update of an id that is not in the table returns notFound=true with an empty
\* validation list whatever the payload; the route answers 404 and the table is as it was.
C3_MissingIdNotFound ==
  (out.op = "update" /\ out.last = "select" /\ out.id \notin IdsOf(out.pre))
    => /\ out.notFound /\ ~out.success /\ ~out.thrown
       /\ out.validation = <<>>
       /\ out.status = 404
       /\ table = out.pre

C3_Witness ==
  /\ out.op = "update" /\ out.last = "select" /\ out.id \notin IdsOf(out.pre)
  /\ out.status = 404
  /\ validateTodo(out.payload) # <<>>

\* C4: a delete returns true (204) exactly when the row is in the table, and then removes
\* that row and no other; otherwise it returns false (404) and changes nothing; no id
\* ever sees a second delete return true.
C4_DeleteOnce ==
  /\ \A id \in DOMAIN deleted : deleted[id] <= 1
  /\ out.op = "del"
       => /\ out.success = (out.id \in IdsOf(out.pre))
          /\ out.status = (IF out.id \in IdsOf(out.pre) THEN 204 ELSE 404)
          /\ table = {r \in out.pre : r.id # out.id}
          /\ out.id \notin IdsOf(table)

C4_Witness ==
  /\ out.op = "del" /\ out.status = 404
  /\ deleted[out.id] = 1

\* C5: an update of a row that is in the table, with any (non-empty) subset of the fields
\* whose values pass validation, succeeds; afterwards each supplied field of the row is the
\* supplied value, and id, created, the fields not supplied and the other rows are as
\* they were.
C5_PartialUpdate ==
  (/\ out.op = "update" /\ out.last = "update" /\ out.id \in IdsOf(out.pre)
   /\ \E f \in {"title", "due", "position", "completed"} : Present(out.payload[f]))
    => /\ out.success /\ ~out.thrown
       /\ out.id \in IdsOf(table)
       /\ LET old == RowOf(out.pre, out.id)
              new == RowOf(table, out.id)
              p == out.payload
          IN /\ new.id = old.id /\ new.created = old.created
             /\ new.title = (IF Present(p.title) THEN p.title.s ELSE old.title)
             /\ new.position = (IF Present(p.position) THEN p.position.n ELSE old.position)
             /\ new.completed = (IF Present(p.completed) THEN p.completed.b ELSE old.completed)
             /\ new.due = (IF Present(p.due) THEN pgTimestamptz(p.due.s).v ELSE old.due)
             /\ table \ {new} = out.pre \ {old}

\* C6: a successful update of a row sets the row's updated timestamp to the time of the
\* update, not earlier than its previous value or its created value, and returns the
\* row as it is stored.
C6_UpdatedRefreshed ==
  (out.op = "update" /\ out.success /\ out.id \in IdsOf(out.pre))
    => /\ out.id \in IdsOf(table)
       /\ LET old == RowOf(out.pre, out.id)
              new == RowOf(table, out.id)
          IN /\ new.updated = now
             /\ new.updated >= old.updated /\ new.updated >= new.created
             /\ out.item = Item(returning(new))

\* C7: no database connection stays open once the call that opened it has returned or
\* thrown.
C7_ConnectionsReleased == conns = 0

C7_Witness ==
  /\ out.op = "update" /\ out.last = "update" /\ out.thrown
  /\ validateTodo(out.payload) = <<>>
  /\ Present(out.payload.title) /\ ~Present(out.payload.position)
  /\ conns = 0

\* C8: every stored row has a title of 1 to 128 characters and a position of at least 0.
C8_RowInvariant ==
  \A r \in table : Len(r.title) >= 1 /\ Len(r.title) <= 128 /\ r.position >= 0

IsDesc(s) ==
  /\ Len(s) = 4
  /\ s[1] \in {"d", "D"} /\ s[2] \in {"e", "E"} /\ s[3] \in {"s", "S"} /\ s[4] \in {"c", "C"}

\* C9: readAll returns, each once, the rows whose completed flag is the one asked for
\* ('true' or 'false'), or all rows for any other value; sorted by position, descending
\* when order is 'desc' in any letter case and ascending otherwise; it changes no row.
C9_ReadAll ==
  (out.op = "readAll" /\ ~out.thrown)
    => LET want == IF out.completed = Str(<<"t", "r", "u", "e">>) THEN {r \in out.pre : r.completed}
                   ELSE IF out.completed = Str(<<"f", "a", "l", "s", "e">>) THEN {r \in out.pre : ~r.completed}
                   ELSE out.pre
           desc == Present(out.order) /\ IsDesc(out.order.s)
           n == Len(out.rows)
       IN /\ out.status = 200
          /\ {out.rows[i] : i \in 1..n} = want
          /\ n = Cardinality(want)
          /\ \A i \in 1..n - 1 :
               IF desc THEN out.rows[i].position >= out.rows[i + 1].position
                       ELSE out.rows[i].position <= out.rows[i + 1].position
          /\ table = out.pre

C9_Witness ==
  /\ out.op = "readAll"
  /\ out.order = Str(<<"D", "E", "S", "C">>)
  /\ out.completed = Str(<<"t", "r", "u", "e">>)
  /\ Len(out.rows) = 2
  /\ out.rows[1].position > out.rows[2].position

\* C10: whenever update returns success=true the returned item is a row with the
\* requested id that is in the table after the write (so an update whose row was deleted
\* between its lookup and its UPDATE statement does not report success).
C10_SuccessMeansRow ==
  (out.op = "update" /\ out.success)
    => /\ out.status = 201
       /\ out.item.t = "row"
       /\ out.item.row.id = out.id
       /\ \E r \in table : returning(r) = out.item.row

\* C10, amended: whenever update returns success=true the route answers 201; if the row
\* was still in the table at the UPDATE statement the returned item is that row as it is
\* in the table after the write; an update whose row was deleted between its lookup and
\* its UPDATE statement is not guarded: it reports success too, with no item, and leaves
\* the table as it was.
C10_SuccessUnguarded ==
  (out.op = "update" /\ out.last = "update" /\ ~out.thrown)
    => /\ out.success /\ out.status = 201
       /\ IF out.id \in IdsOf(out.pre)
          THEN /\ out.item.t = "row"
               /\ out.item.row.id = out.id
               /\ \E r \in table : returning(r) = out.item.row
          ELSE out.item = Undef /\ table = out.pre

C10_Witness ==
  /\ out.op = "update" /\ out.success
  /\ out.id \notin IdsOf(out.pre)
  /\ deleted[out.id] = 1

====
